---- MODULE Spec2Model ----
(***************************************************************************)
(* Model of network.LinkSpecController (internal/pkg/machine/controllers/  *)
(* link_spec.go): the reconciliation loop Run, the per-link sync syncLink  *)
(* and the wireguard codec wireguardSpec.Encode / wireguardSpec.Decode.    *)
(*                                                                         *)
(* Strings that the code parses are modelled as naturals ordered like the  *)
(* strings they stand for:                                                 *)
(*   key strings       0 = "", 1 = not a base64 key, and for the key k     *)
(*                     2k+2 = its canonical base64 form (Key.String) and   *)
(*                     2k+3 = another base64 text that decodes to k        *)
(*                     (base64.StdEncoding is not strict);                 *)
(*   endpoint strings  0 = "", 1 = unresolvable, and for the address a     *)
(*                     2a+2 = its "ip:port" form (UDPAddr.String) and      *)
(*                     2a+3 = another text resolving to a ("host:port").   *)
(* Key 0 is the all-zero key.  A Go pointer is a record [set, val].        *)
(***************************************************************************)
EXTENDS Integers, Sequences, FiniteSets, TLC

\* ------------------------------------------------------------------ bounds
MaxPeers == 2
MaxCycles == 2
MaxFaults == 1

\* ------------------------------------------------------------- pointers
Nil == [set |-> FALSE, val |-> 0]
Ptr(v) == [set |-> TRUE, val |-> v]

\* ------------------------------------------------- parsing and formatting
\* wgtypes.ParseKey: base64-decodes a 32-byte key.
ParseKey(s) == IF s < 2 THEN [err |-> TRUE, key |-> 0]
               ELSE [err |-> FALSE, key |-> (s - 2) \div 2]

\* wgtypes.Key.String: the canonical base64 text of a key.
KeyString(k) == 2 * k + 2

\* net.ResolveUDPAddr on a non-empty text.
ResolveUDPAddr(s) == IF s < 2 THEN [err |-> TRUE, addr |-> 0]
                     ELSE [err |-> FALSE, addr |-> (s - 2) \div 2]

\* net.UDPAddr.String
AddrString(a) == 2 * a + 2

\* netipx.PrefixIPNet: netip.Prefix [addr, bits] to net.IPNet [IP, Mask].
PrefixIPNet(p) == [IP |-> p.addr, Mask |-> p.bits]

\* netipx.FromStdIPNet: net.IPNet back to netip.Prefix.
FromStdIPNet(n) == [addr |-> n.IP, bits |-> n.Mask]

\* ------------------------------------------------------------ Decode
\* One peer of wireguardSpec.Decode: device peer record to WireguardPeer.
DecodePeer(p) ==
    [PublicKey |-> KeyString(p.PublicKey),
     PresharedKey |-> IF p.PresharedKey # 0 THEN KeyString(p.PresharedKey) ELSE 0,
     Endpoint |-> IF p.Endpoint.set THEN AddrString(p.Endpoint.val) ELSE 0,
     PersistentKeepaliveInterval |-> p.PersistentKeepaliveInterval,
     AllowedIPs |-> {FromStdIPNet(n) : n \in p.AllowedIPs}]

\* The device's peers in the order the device reports them: not the order
\* Sort gives (descending by key here).
RECURSIVE DevicePeerSeq(_)
DevicePeerSeq(peers) ==
    IF peers = {} THEN <<>>
    ELSE LET p == CHOOSE q \in peers : \A o \in peers : q.PublicKey <= o.PublicKey
         IN  Append(DevicePeerSeq(peers \ {p}), p)

\* wireguardSpec.Decode(dev, false)
Decode(dev) ==
    LET ps == DevicePeerSeq(dev.Peers)
    IN  [PrivateKey |-> KeyString(dev.PrivateKey),
         ListenPort |-> dev.ListenPort,
         FirewallMark |-> dev.FirewallMark,
         Peers |-> [i \in 1..Len(ps) |-> DecodePeer(ps[i])]]

\* ------------------------------------------------- Sort and Equal
\* Insert a peer into a sequence sorted by PublicKey (after equal keys).
RECURSIVE InsertPeer(_, _)
InsertPeer(sorted, p) ==
    IF sorted = <<>> THEN <<p>>
    ELSE IF p.PublicKey < Head(sorted).PublicKey THEN <<p>> \o sorted
    ELSE <<Head(sorted)>> \o InsertPeer(Tail(sorted), p)

RECURSIVE SortPeers(_)
SortPeers(ps) ==
    IF ps = <<>> THEN <<>>
    ELSE InsertPeer(SortPeers(SubSeq(ps, 1, Len(ps) - 1)), ps[Len(ps)])

\* WireguardSpec.Sort: peers ascending by public key text.
SortSpec(spec) == [spec EXCEPT !.Peers = SortPeers(spec.Peers)]

\* WireguardPeer.Equal
PeerEqual(left, right) ==
    /\ left.PublicKey = right.PublicKey
    /\ left.PresharedKey = right.PresharedKey
    /\ left.Endpoint = right.Endpoint
    /\ left.PersistentKeepaliveInterval = right.PersistentKeepaliveInterval
    /\ left.AllowedIPs = right.AllowedIPs

\* existingSpec.Equal(&desired): a desired listen port of 0 is no change.
SpecEqual(existing, desired) ==
    /\ existing.PrivateKey = desired.PrivateKey
    /\ ~(existing.ListenPort # desired.ListenPort /\ desired.ListenPort # 0)
    /\ existing.FirewallMark = desired.FirewallMark
    /\ Len(existing.Peers) = Len(desired.Peers)
    /\ \A i \in 1..Len(existing.Peers) : PeerEqual(existing.Peers[i], desired.Peers[i])

\* ------------------------------------------------------------ Encode
EncodeFail == [err |-> TRUE, cfg |-> [PrivateKey |-> Nil, ListenPort |-> Nil,
                                       FirewallMark |-> Nil, Peers |-> <<>>]]

\* The addPeer closure of Encode.
AddPeer(peer) ==
    LET pub == ParseKey(peer.PublicKey)
        psk == ParseKey(peer.PresharedKey)
        ep  == ResolveUDPAddr(peer.Endpoint)
        bad == \/ pub.err
               \/ peer.PresharedKey # 0 /\ psk.err
               \/ peer.Endpoint # 0 /\ ep.err
    IN  [err |-> bad,
         entry |-> [PublicKey |-> pub.key,
                    Remove |-> FALSE,
                    Endpoint |-> IF peer.Endpoint # 0 THEN Ptr(ep.addr) ELSE Nil,
                    PresharedKey |-> IF peer.PresharedKey # 0 THEN Ptr(psk.key) ELSE Nil,
                    PersistentKeepaliveInterval |-> Ptr(peer.PersistentKeepaliveInterval),
                    ReplaceAllowedIPs |-> TRUE,
                    AllowedIPs |-> {PrefixIPNet(ip) : ip \in peer.AllowedIPs}]]

\* The deletePeer closure of Encode.
DeletePeer(peer) ==
    LET pub == ParseKey(peer.PublicKey)
    IN  [err |-> pub.err,
         entry |-> [PublicKey |-> pub.key,
                    Remove |-> TRUE,
                    Endpoint |-> Nil,
                    PresharedKey |-> Nil,
                    PersistentKeepaliveInterval |-> Nil,
                    ReplaceAllowedIPs |-> FALSE,
                    AllowedIPs |-> {}]]

\* The merge loop of Encode over the two peer lists, cursors l and r
\* (1-based here), cfg.Peers accumulated in acc.
RECURSIVE MergePeers(_, _, _, _, _)
MergePeers(existing, spec, l, r, acc) ==
    IF ~(l <= Len(existing) \/ r <= Len(spec)) THEN [err |-> FALSE, peers |-> acc]
    ELSE
      LET hasLeft  == l <= Len(existing)
          hasRight == r <= Len(spec)
      IN  IF ~hasLeft \/ (hasRight /\ existing[l].PublicKey > spec[r].PublicKey)
          THEN LET a == AddPeer(spec[r])
               IN  IF a.err THEN [err |-> TRUE, peers |-> <<>>]
                   ELSE MergePeers(existing, spec, l, r + 1, Append(acc, a.entry))
          ELSE IF ~hasRight \/ (hasLeft /\ existing[l].PublicKey < spec[r].PublicKey)
          THEN LET d == DeletePeer(existing[l])
               IN  IF d.err THEN [err |-> TRUE, peers |-> <<>>]
                   ELSE MergePeers(existing, spec, l + 1, r, Append(acc, d.entry))
          ELSE IF ~PeerEqual(existing[l], spec[r])
          THEN LET a == AddPeer(spec[r])
               IN  IF a.err THEN [err |-> TRUE, peers |-> <<>>]
                   ELSE MergePeers(existing, spec, l + 1, r + 1, Append(acc, a.entry))
          ELSE MergePeers(existing, spec, l + 1, r + 1, acc)

\* Encode with a desired listen port of 0 read as "not set".
EncodeZeroPortUnset(spec, existing) ==
    LET key == ParseKey(spec.PrivateKey)
        m   == MergePeers(existing.Peers, spec.Peers, 1, 1, <<>>)
    IN  IF existing.PrivateKey # spec.PrivateKey /\ key.err THEN EncodeFail
        ELSE IF m.err THEN EncodeFail
        ELSE [err |-> FALSE,
              cfg |-> [PrivateKey |-> IF existing.PrivateKey # spec.PrivateKey
                                      THEN Ptr(key.key) ELSE Nil,
                       ListenPort |-> IF existing.ListenPort # spec.ListenPort
                                         /\ spec.ListenPort # 0
                                      THEN Ptr(spec.ListenPort) ELSE Nil,
                       FirewallMark |-> IF existing.FirewallMark # spec.FirewallMark
                                        THEN Ptr(spec.FirewallMark) ELSE Nil,
                       Peers |-> m.peers]]

\* wireguardSpec.Encode: the patch that takes `existing` to `spec`.
Encode(spec, existing) ==
    LET key == ParseKey(spec.PrivateKey)
        m   == MergePeers(existing.Peers, spec.Peers, 1, 1, <<>>)
    IN  IF existing.PrivateKey # spec.PrivateKey /\ key.err THEN EncodeFail
        ELSE IF m.err THEN EncodeFail
        ELSE [err |-> FALSE,
              cfg |-> [PrivateKey |-> IF existing.PrivateKey # spec.PrivateKey
                                      THEN Ptr(key.key) ELSE Nil,
                       ListenPort |-> IF existing.ListenPort # spec.ListenPort
                                      THEN Ptr(spec.ListenPort) ELSE Nil,
                       FirewallMark |-> IF existing.FirewallMark # spec.FirewallMark
                                        THEN Ptr(spec.FirewallMark) ELSE Nil,
                       Peers |-> m.peers]]

\* ------------------------------------------ the wireguard device (wgctrl)
\* A peer the device did not have before a peer entry names it.
NewDevicePeer(k) == [PublicKey |-> k, PresharedKey |-> 0, Endpoint |-> Nil,
                     PersistentKeepaliveInterval |-> 0, AllowedIPs |-> {}]

\* One peer entry of a patch applied to the device's peers: a nil field of
\* the entry leaves the peer's value as it is (wgtypes.PeerConfig).
ApplyPeerConfig(peers, e) ==
    LET others == {p \in peers : p.PublicKey # e.PublicKey}
        olds   == {p \in peers : p.PublicKey = e.PublicKey}
        old    == IF olds = {} THEN NewDevicePeer(e.PublicKey) ELSE CHOOSE p \in olds : TRUE
    IN  IF e.Remove THEN others
        ELSE others \cup
             {[PublicKey |-> e.PublicKey,
               PresharedKey |-> IF e.PresharedKey.set THEN e.PresharedKey.val
                                ELSE old.PresharedKey,
               Endpoint |-> IF e.Endpoint.set THEN Ptr(e.Endpoint.val) ELSE old.Endpoint,
               PersistentKeepaliveInterval |->
                   IF e.PersistentKeepaliveInterval.set
                   THEN e.PersistentKeepaliveInterval.val
                   ELSE old.PersistentKeepaliveInterval,
               AllowedIPs |-> (IF e.ReplaceAllowedIPs THEN {} ELSE old.AllowedIPs)
                              \cup e.AllowedIPs]}

RECURSIVE ApplyPeerConfigs(_, _)
ApplyPeerConfigs(peers, entries) ==
    IF entries = <<>> THEN peers
    ELSE ApplyPeerConfigs(ApplyPeerConfig(peers, Head(entries)), Tail(entries))

\* wgClient.ConfigureDevice(name, cfg) on the device state dev.
ConfigureDevice(dev, cfg) ==
    [dev EXCEPT
       !.PrivateKey = IF cfg.PrivateKey.set THEN cfg.PrivateKey.val ELSE @,
       !.ListenPort = IF cfg.ListenPort.set THEN cfg.ListenPort.val ELSE @,
       !.FirewallMark = IF cfg.FirewallMark.set THEN cfg.FirewallMark.val ELSE @,
       !.Peers = ApplyPeerConfigs(@, cfg.Peers)]

\* ------------------------------------------------------------ the kernel
Names == {"link0", "link1"}

LinkKindWireguard == "wireguard"

\* No link of that name (FindLink returning nil).
NoLink == [present |-> FALSE, Index |-> 0, Type |-> 0, Info |-> FALSE, Kind |-> "",
           Up |-> FALSE, NoArp |-> FALSE, MTU |-> 0]

\* No wireguard device of that name.
NoDev == [present |-> FALSE, PrivateKey |-> 0, ListenPort |-> 0, FirewallMark |-> 0,
          Peers |-> {}]

\* The device of a wireguard link just created.
FreshDev == [NoDev EXCEPT !.present = TRUE]

\* The MTU the kernel gives a link it creates.
DefaultMTU(kind) == IF kind = LinkKindWireguard THEN 1420 ELSE 1500

\* FindLink: the snapshot's link of that name, or nil.
FindLink(links, name) == links[name]

\* The result of a failed conn.Link.List(): a nil slice.
NoLinks == [n \in Names |-> NoLink]

\* The kernel's name of the link with that index (none: the empty set).
NamesOfIndex(kernel, index) == {n \in Names : kernel[n].present /\ kernel[n].Index = index}

\* -------------------------------------------------- calls of one item sync
\* The state an item sync reads and writes: the kernel and the devices, the
\* snapshot *links, the store's finalizers and LinkRefresh counter, the log of
\* the calls issued, the local `existing`, and how the sync stands: err (it
\* returned an error), done (it returned nil), fired (the injected fault
\* hit).  Every step leaves a sync that has returned as it is.
Returned(c) == c.err \/ c.done

LogCall(c, op, item, index, arg, ok) ==
    [c EXCEPT !.calls = Append(@, [op |-> op, item |-> item, index |-> index,
                                    arg |-> arg, ok |-> ok])]

Fail(c) == [c EXCEPT !.err = TRUE]

Fired(c) == [c EXCEPT !.err = TRUE, !.fired = TRUE]

\* conn.Link.Delete(index)
LinkDelete(c, link, index, fault) ==
    LET hit == NamesOfIndex(c.kernel, index)
    IN  IF Returned(c) THEN c
        ELSE IF fault
        THEN Fired(LogCall(c, "delete", link.Name, index, [held |-> hit # {}], FALSE))
        ELSE IF hit = {}
        THEN Fail(LogCall(c, "delete", link.Name, index, [held |-> FALSE], FALSE))
        ELSE [LogCall(c, "delete", link.Name, index, [held |-> TRUE], TRUE) EXCEPT
                 !.kernel = [n \in Names |-> IF n \in hit THEN NoLink ELSE @[n]],
                 !.wg = [n \in Names |-> IF n \in hit THEN NoDev ELSE @[n]]]

\* conn.Link.New(&LinkMessage{Type, Attributes{Name, Info{Kind}}})
LinkNew(c, link, fault) ==
    LET exists == c.kernel[link.Name].present
        arg == [held |-> exists, Kind |-> link.Kind, Type |-> link.Type]
    IN  IF Returned(c) THEN c
        ELSE IF fault THEN Fired(LogCall(c, "create", link.Name, c.nextIndex, arg, FALSE))
        ELSE IF exists THEN Fail(LogCall(c, "create", link.Name, c.nextIndex, arg, FALSE))
        ELSE [LogCall(c, "create", link.Name, c.nextIndex, arg, TRUE) EXCEPT
                 !.kernel[link.Name] =
                     [present |-> TRUE, Index |-> c.nextIndex, Type |-> link.Type,
                      Info |-> TRUE, Kind |-> link.Kind, Up |-> FALSE,
                      NoArp |-> link.Kind = LinkKindWireguard,
                      MTU |-> DefaultMTU(link.Kind)],
                 !.wg[link.Name] = IF link.Kind = LinkKindWireguard
                                   THEN FreshDev ELSE NoDev,
                 !.nextIndex = @ + 1]

\* *links, err = conn.Link.List()
LinkList(c, fault) ==
    IF Returned(c) THEN c
    ELSE IF fault THEN Fired([c EXCEPT !.links = NoLinks])
    ELSE [c EXCEPT !.links = c.kernel]

\* The kernel's flags of a link after a message with those Flags and that
\* Change mask: a flag in the mask takes the message's value.
ChangeFlags(l, arg) ==
    [l EXCEPT !.Up = IF "IFF_UP" \in arg.Change THEN "IFF_UP" \in arg.Flags ELSE @,
              !.NoArp = IF "IFF_NOARP" \in arg.Change THEN "IFF_NOARP" \in arg.Flags ELSE @]

\* conn.Link.Set of a message with Flags and Change.
SetFlags(c, link, index, arg, fault) ==
    LET hit == NamesOfIndex(c.kernel, index)
    IN  IF Returned(c) THEN c
        ELSE IF fault THEN Fired(LogCall(c, "set_flags", link.Name, index, arg, FALSE))
        ELSE IF hit = {} THEN Fail(LogCall(c, "set_flags", link.Name, index, arg, FALSE))
        ELSE [LogCall(c, "set_flags", link.Name, index, arg, TRUE) EXCEPT
                 !.kernel = [n \in Names |->
                                IF n \in hit THEN ChangeFlags(@[n], arg) ELSE @[n]]]

\* The flags message with a Change mask of every flag.
LinkSetFlagsNoMask(c, link, index, up, fault) ==
    SetFlags(c, link, index,
             [Flags |-> IF up THEN {"IFF_UP"} ELSE {}, Change |-> {"IFF_UP", "IFF_NOARP"}],
             fault)

\* conn.Link.Set(&LinkMessage{Index, Flags, Change: IFF_UP})
LinkSetFlags(c, link, index, up, fault) ==
    SetFlags(c, link, index,
             [Flags |-> IF up THEN {"IFF_UP"} ELSE {}, Change |-> {"IFF_UP"}],
             fault)

\* conn.Link.Set(&LinkMessage{Index, Attributes{MTU}})
LinkSetMTU(c, link, index, mtu, fault) ==
    LET hit == NamesOfIndex(c.kernel, index)
    IN  IF Returned(c) THEN c
        ELSE IF fault
        THEN Fired(LogCall(c, "set_mtu", link.Name, index, [MTU |-> mtu], FALSE))
        ELSE IF hit = {}
        THEN Fail(LogCall(c, "set_mtu", link.Name, index, [MTU |-> mtu], FALSE))
        ELSE [LogCall(c, "set_mtu", link.Name, index, [MTU |-> mtu], TRUE) EXCEPT
                 !.kernel = [n \in Names |->
                                IF n \in hit THEN [@[n] EXCEPT !.MTU = mtu] ELSE @[n]]]

\* r.RemoveFinalizer(ctx, link.Metadata(), ctrl.Name())
RemoveFinalizer(c, link, fault) ==
    IF Returned(c) THEN c
    ELSE IF fault
    THEN Fired(LogCall(c, "rmfin", link.Name, 0,
                       [held |-> c.kernel[link.Name].present], FALSE))
    ELSE [LogCall(c, "rmfin", link.Name, 0,
                  [held |-> c.kernel[link.Name].present], TRUE) EXCEPT
             !.fin = @ \ {link.Name}]

\* wgClient.ConfigureDevice(link.Name, *config)
WgConfigure(c, link, cfg, fault) ==
    IF Returned(c) THEN c
    ELSE IF fault THEN Fired(LogCall(c, "configure", link.Name, 0, cfg, FALSE))
    ELSE [LogCall(c, "configure", link.Name, 0, cfg, TRUE) EXCEPT
             !.wg[link.Name] = ConfigureDevice(@, cfg)]

\* safe.WriterModify of the LinkRefresh of the wireguard kind: Bump()
BumpRefresh(c, link, fault) ==
    IF Returned(c) THEN c
    ELSE IF fault THEN Fired(c)
    ELSE [LogCall(c, "bump", link.Name, 0, [kind |-> LinkKindWireguard], TRUE) EXCEPT
             !.refresh = @ + 1]

\* ------------------------------------------------------------- syncLink
\* existing := FindLink(*links, link.TypedSpec().Name)
Lookup(c, link) ==
    IF Returned(c) THEN c ELSE [c EXCEPT !.existing = FindLink(c.links, link.Name)]

\* The teardown without its "existing != nil" check.
TearDownLinkUnchecked(c, link, fault) ==
    IF Returned(c) THEN c
    ELSE IF link.Logical
    THEN LinkList(LinkDelete(c, link, c.existing.Index, fault = "delete"), fault = "list")
    ELSE c

\* case resource.PhaseTearingDown: delete the logical link and refresh.
TearDownLink(c, link, fault) ==
    IF Returned(c) THEN c
    ELSE IF link.Logical /\ c.existing.present
    THEN LinkList(LinkDelete(c, link, c.existing.Index, fault = "delete"), fault = "list")
    ELSE c

\* case resource.PhaseTearingDown
SyncTearingDown(c, link, fault) ==
    RemoveFinalizer(TearDownLink(Lookup(c, link), link, fault), link, fault = "rmfin")

\* The replace decision on the kind alone.
ReplaceNeededKindOnly(existing, link) ==
    existing.Kind # link.Kind

\* "if type/kind doesn't match, recreate the link to change it"
ReplaceNeeded(existing, link) ==
    existing.Type # link.Type \/ existing.Kind # link.Kind

\* The kind check taking a link without kind metadata for a mismatch.
CheckKindNoInfoSkip(c, link, fault) ==
    IF Returned(c) THEN c
    ELSE IF ~(c.existing.present /\ link.Logical) THEN c
    ELSE IF ~c.existing.Info \/ ReplaceNeeded(c.existing, link)
    THEN [LinkDelete(c, link, c.existing.Index, fault = "delete") EXCEPT
             !.existing = NoLink]
    ELSE c

\* "check if type/kind matches for the existing logical link"
CheckKind(c, link, fault) ==
    IF Returned(c) THEN c
    ELSE IF ~(c.existing.present /\ link.Logical) THEN c
    ELSE IF ~c.existing.Info THEN [c EXCEPT !.done = TRUE]
    ELSE IF ReplaceNeeded(c.existing, link)
    THEN [LinkDelete(c, link, c.existing.Index, fault = "delete") EXCEPT
             !.existing = NoLink]
    ELSE c

\* The lookup of the created link in the refreshed list.
Resolve(c, link) ==
    IF Returned(c) THEN c
    ELSE IF ~FindLink(c.links, link.Name).present THEN Fail(c)
    ELSE [c EXCEPT !.existing = FindLink(c.links, link.Name)]

\* The creation without its "skip any kinds ... except wireguard" check.
SyncCreateAnyKind(c, link, fault) ==
    IF Returned(c) THEN c
    ELSE IF c.existing.present THEN c
    ELSE IF ~link.Logical THEN [c EXCEPT !.done = TRUE]
    ELSE Resolve(LinkList(LinkNew(c, link, fault = "create"), fault = "list"), link)

\* The creation without its "physical interface doesn't exist yet" check.
SyncCreatePhysical(c, link, fault) ==
    IF Returned(c) THEN c
    ELSE IF c.existing.present THEN c
    ELSE IF link.Kind # LinkKindWireguard THEN [c EXCEPT !.done = TRUE]
    ELSE Resolve(LinkList(LinkNew(c, link, fault = "create"), fault = "list"), link)

\* "if existing == nil": create the logical link, refresh, look it up again.
SyncCreate(c, link, fault) ==
    IF Returned(c) THEN c
    ELSE IF c.existing.present THEN c
    ELSE IF ~link.Logical THEN [c EXCEPT !.done = TRUE]
    ELSE IF link.Kind # LinkKindWireguard THEN [c EXCEPT !.done = TRUE]
    ELSE Resolve(LinkList(LinkNew(c, link, fault = "create"), fault = "list"), link)

\* Encode's result submitted although Encode returned an error.
ReconfigureUnchecked(c, link, config, fault) ==
    BumpRefresh(WgConfigure(LogCall(c, "encode", link.Name, 0, config, ~config.err),
                            link, config.cfg, fault = "configure"),
                link, fault = "bump")

\* Encode's result: its error returned, or its patch submitted and the
\* refresh bumped.
Reconfigure(c, link, config, fault) ==
    IF config.err THEN Fail(LogCall(c, "encode", link.Name, 0, config, FALSE))
    ELSE BumpRefresh(WgConfigure(LogCall(c, "encode", link.Name, 0, config, TRUE),
                                 link, config.cfg, fault = "configure"),
                     link, fault = "bump")

\* The wireguard sync passed over when there is no client.
SyncWireguardIfClient(c, link, fault) ==
    IF Returned(c) THEN c
    ELSE IF link.Kind # LinkKindWireguard THEN c
    ELSE IF ~c.wgClient THEN c
    ELSE IF fault = "device" THEN Fired(c)
    ELSE IF ~c.wg[link.Name].present THEN Fail(c)
    ELSE IF SpecEqual(SortSpec(Decode(c.wg[link.Name])), SortSpec(link.Wireguard))
    THEN LogCall(c, "device", link.Name, 0, [equal |-> TRUE], TRUE)
    ELSE Reconfigure(LogCall(c, "device", link.Name, 0, [equal |-> FALSE], TRUE), link,
                     Encode(SortSpec(link.Wireguard), SortSpec(Decode(c.wg[link.Name]))),
                     fault)

\* "sync wireguard settings"
SyncWireguard(c, link, fault) ==
    IF Returned(c) THEN c
    ELSE IF link.Kind # LinkKindWireguard THEN c
    ELSE IF ~c.wgClient THEN Fail(c)
    ELSE IF fault = "device" THEN Fired(c)
    ELSE IF ~c.wg[link.Name].present THEN Fail(c)
    ELSE IF SpecEqual(SortSpec(Decode(c.wg[link.Name])), SortSpec(link.Wireguard))
    THEN LogCall(c, "device", link.Name, 0, [equal |-> TRUE], TRUE)
    ELSE Reconfigure(LogCall(c, "device", link.Name, 0, [equal |-> FALSE], TRUE), link,
                     Encode(SortSpec(link.Wireguard), SortSpec(Decode(c.wg[link.Name]))),
                     fault)

\* "sync UP flag"
SyncUp(c, link, fault) ==
    IF Returned(c) THEN c
    ELSE IF c.existing.Up # link.Up
    THEN LinkSetFlags(c, link, c.existing.Index, link.Up, fault = "flags")
    ELSE c

\* existing.Attributes.MTU = link.TypedSpec().MTU: a write into the snapshot.
NoteMTU(c, index, mtu) ==
    IF Returned(c) THEN c
    ELSE [c EXCEPT !.links = [n \in Names |->
                                 IF @[n].present /\ @[n].Index = index
                                 THEN [@[n] EXCEPT !.MTU = mtu] ELSE @[n]],
                   !.existing.MTU = mtu]

\* The MTU sync without its "link.TypedSpec().MTU != 0" check.
SyncMTUAlways(c, link, fault) ==
    IF Returned(c) THEN c
    ELSE IF c.existing.MTU # link.MTU
    THEN NoteMTU(LinkSetMTU(c, link, c.existing.Index, link.MTU, fault = "mtu"),
                 c.existing.Index, link.MTU)
    ELSE c

\* "sync MTU if it's set in the spec"
SyncMTU(c, link, fault) ==
    IF Returned(c) THEN c
    ELSE IF link.MTU # 0 /\ c.existing.MTU # link.MTU
    THEN NoteMTU(LinkSetMTU(c, link, c.existing.Index, link.MTU, fault = "mtu"),
                 c.existing.Index, link.MTU)
    ELSE c

\* case resource.PhaseRunning
SyncRunning(c, link, fault) ==
    SyncMTU(
      SyncUp(
        SyncWireguard(
          SyncCreate(
            CheckKind(Lookup(c, link), link, fault),
            link, fault),
          link, fault),
        link, fault),
      link, fault)

\* syncLink
SyncLink(c, link, fault) ==
    IF link.Phase = "TearingDown" THEN SyncTearingDown(c, link, fault)
    ELSE SyncRunning(c, link, fault)

\* ------------------------------------------------------------------ state
VARIABLES
    items,      \* the store's LinkSpecs, in list order
    fin,        \* names of the LinkSpecs holding this controller's finalizer
    kernel,     \* the kernel's links, by name
    nextIndex,  \* the index the kernel gives the next link it creates
    wg,         \* the wireguard devices, by link name
    wgClient,   \* whether wgctrl.New() gave a client
    ctxDone,    \* whether the context of Run is cancelled
    refresh,    \* the LinkRefresh counter of the wireguard kind
    pc,         \* where Run is
    list,       \* list.Items of the cycle
    links,      \* the cycle's snapshot of the kernel's links
    idx,        \* the position of the item loop in list
    errs,       \* the names whose sync returned an error (multiErr)
    synced,     \* the syncs of this cycle, in order: the item, its snapshot link, the result
                \* (err: an error; done: nil before the link was resolved)
                \* and whether the context was cancelled by then
    calls,      \* the calls issued in this cycle
    outcome,    \* how the last cycle ended
    cycle,      \* cycles started
    faults,     \* failures injected
    afterClean, \* this cycle follows a healthy cycle, nothing declared changed since
    settled,    \* the last cycle was healthy and nothing declared changed since
    enc         \* the codec under test: its inputs and results

vars == <<items, fin, kernel, nextIndex, wg, wgClient, ctxDone, refresh, pc, list, links, idx,
          errs, synced, calls, outcome, cycle, faults, afterClean, settled, enc>>

\* The state handed to an item sync.
Ctx == [kernel |-> kernel, nextIndex |-> nextIndex, wg |-> wg, links |-> links,
        fin |-> fin, refresh |-> refresh, calls |-> calls, wgClient |-> wgClient,
        existing |-> NoLink, err |-> FALSE, done |-> FALSE, fired |-> FALSE]

\* ---------------------------------------------------------------- Run
\* select { case <-r.EventCh() }, then r.List of the LinkSpecs.
Wake ==
    /\ pc = "wait"
    /\ cycle < MaxCycles
    /\ cycle' = cycle + 1
    /\ calls' = <<>>
    /\ synced' = <<>>
    /\ errs' = <<>>
    /\ afterClean' = settled
    /\ settled' = FALSE
    /\ \E fault \in BOOLEAN :
         /\ fault => faults < MaxFaults
         /\ faults' = IF fault THEN faults + 1 ELSE faults
         /\ IF fault
            THEN pc' = "failed" /\ outcome' = "aborted" /\ UNCHANGED list
            ELSE pc' = "finalizers" /\ outcome' = "running" /\ list' = items
    /\ UNCHANGED <<items, fin, kernel, nextIndex, wg, wgClient, ctxDone, refresh, links, idx, enc>>

\* The Running names among the first k items of the list.
RunningUpTo(k) == {list[i].Name : i \in {j \in 1..k : list[j].Phase = "Running"}}

\* The finalizer loop going on to the kernel listing when AddFinalizer fails.
AddFinalizersTolerant ==
    /\ pc = "finalizers"
    /\ \/ /\ fin' = fin \cup RunningUpTo(Len(list))
          /\ UNCHANGED faults
       \/ \E k \in 1..Len(list) :
             /\ list[k].Phase = "Running"
             /\ faults < MaxFaults
             /\ faults' = faults + 1
             /\ fin' = fin \cup RunningUpTo(k - 1)
    /\ pc' = "listlinks"
    /\ UNCHANGED <<items, kernel, nextIndex, wg, wgClient, ctxDone, refresh, list, links, idx, errs,
                   synced, calls, outcome, cycle, afterClean, settled, enc>>

\* "add finalizers for all live resources"
AddFinalizers ==
    /\ pc = "finalizers"
    /\ \/ /\ fin' = fin \cup RunningUpTo(Len(list))
          /\ pc' = "listlinks"
          /\ UNCHANGED <<faults, outcome>>
       \/ \E k \in 1..Len(list) :
             /\ list[k].Phase = "Running"
             /\ faults < MaxFaults
             /\ faults' = faults + 1
             /\ fin' = fin \cup RunningUpTo(k - 1)
             /\ pc' = "failed"
             /\ outcome' = "aborted"
    /\ UNCHANGED <<items, kernel, nextIndex, wg, wgClient, ctxDone, refresh, list, links, idx, errs,
                   synced, calls, cycle, afterClean, settled, enc>>

\* "list rtnetlink links (interfaces)"
ListLinks ==
    /\ pc = "listlinks"
    /\ \/ /\ links' = kernel
          /\ idx' = 1
          /\ pc' = "sync"
          /\ UNCHANGED <<faults, outcome>>
       \/ /\ faults < MaxFaults
          /\ faults' = faults + 1
          /\ pc' = "failed"
          /\ outcome' = "aborted"
          /\ UNCHANGED <<links, idx>>
    /\ UNCHANGED <<items, fin, kernel, nextIndex, wg, wgClient, ctxDone, refresh, list, errs, synced,
                   calls, cycle, afterClean, settled, enc>>

Faults == {"none", "delete", "list", "create", "device", "configure", "bump", "flags",
           "mtu", "rmfin"}

\* The item loop left at the first error.
NextItemStopOnError(i, err) == IF err THEN Len(list) + 1 ELSE i + 1

\* The item loop goes on to the next item whatever the sync returned.
NextItem(i, err) == i + 1

\* One iteration of "loop over links and make reconcile decision".
SyncItem ==
    /\ pc = "sync"
    /\ idx <= Len(list)
    /\ \E fault \in Faults :
         LET r == SyncLink(Ctx, list[idx], fault)
         IN  /\ (fault = "none") = ~r.fired
             /\ r.fired => faults < MaxFaults
             /\ faults' = IF r.fired THEN faults + 1 ELSE faults
             /\ kernel' = r.kernel
             /\ nextIndex' = r.nextIndex
             /\ wg' = r.wg
             /\ links' = r.links
             /\ fin' = r.fin
             /\ refresh' = r.refresh
             /\ calls' = r.calls
             /\ errs' = IF r.err THEN Append(errs, list[idx].Name) ELSE errs
             /\ synced' = Append(synced, [item |-> list[idx],
                                          found |-> FindLink(links, list[idx].Name),
                                          err |-> r.err, done |-> r.done,
                                          cancelled |-> ctxDone])
             /\ idx' = NextItem(idx, r.err)
    /\ UNCHANGED <<items, wgClient, ctxDone, pc, list, outcome, cycle, afterClean, settled, enc>>

\* multiErr.ErrorOrNil(), then r.ResetRestartBackoff()
EndCycle ==
    /\ pc = "sync"
    /\ idx > Len(list)
    /\ IF errs # <<>>
       THEN pc' = "failed" /\ outcome' = "error" /\ settled' = FALSE
       ELSE pc' = "wait" /\ outcome' = "healthy" /\ settled' = TRUE
    /\ UNCHANGED <<items, fin, kernel, nextIndex, wg, wgClient, ctxDone, refresh, list, links, idx,
                   errs, synced, calls, cycle, faults, afterClean, enc>>

\* The context is cancelled while a cycle is under way.
CtxCancel ==
    /\ ~ctxDone
    /\ pc \in {"finalizers", "listlinks", "sync"}
    /\ ctxDone' = TRUE
    /\ UNCHANGED <<items, fin, kernel, nextIndex, wg, wgClient, refresh, pc, list, links, idx,
                   errs, synced, calls, outcome, cycle, faults, afterClean, settled, enc>>

\* The cancellation seen wherever Run is.
CancelAnywhere ==
    /\ pc \in {"wait", "finalizers", "listlinks", "sync"}
    /\ pc' = "stopped"
    /\ ctxDone' = TRUE
    /\ UNCHANGED <<items, fin, kernel, nextIndex, wg, wgClient, refresh, list, links, idx,
                   errs, synced, calls, outcome, cycle, faults, afterClean, settled, enc>>

\* case <-ctx.Done(): return nil (the context cancelled before the wait, or
\* during it)
Cancel ==
    /\ pc = "wait"
    /\ pc' = "stopped"
    /\ ctxDone' = TRUE
    /\ UNCHANGED <<items, fin, kernel, nextIndex, wg, wgClient, refresh, list, links, idx,
                   errs, synced, calls, outcome, cycle, faults, afterClean, settled, enc>>

\* Run returned an error: the runtime calls Run again.
Restart ==
    /\ pc = "failed"
    /\ pc' = "wait"
    /\ UNCHANGED <<items, fin, kernel, nextIndex, wg, wgClient, ctxDone, refresh, list, links, idx,
                   errs, synced, calls, outcome, cycle, faults, afterClean, settled, enc>>

\* The owner of a LinkSpec tears it down (seen by the next r.List).
TearDown ==
    /\ pc = "wait"
    /\ cycle < MaxCycles
    /\ \E i \in 1..Len(items) :
         /\ items[i].Phase = "Running"
         /\ items' = [items EXCEPT ![i].Phase = "TearingDown"]
    /\ settled' = FALSE
    /\ UNCHANGED <<fin, kernel, nextIndex, wg, wgClient, ctxDone, refresh, pc, list, links, idx, errs,
                   synced, calls, outcome, cycle, faults, afterClean, enc>>

\* ------------------------------------------------------ the codec alone
\* Encode on the decoded, sorted device state and the desired spec.
EncodeStep ==
    /\ enc.pc = "init"
    /\ enc' = [enc EXCEPT !.pc = "encoded",
                          !.res = Encode(enc.spec, SortSpec(Decode(enc.dev)))]
    /\ UNCHANGED <<items, fin, kernel, nextIndex, wg, wgClient, ctxDone, refresh, pc, list, links,
                   idx, errs, synced, calls, outcome, cycle, faults, afterClean, settled>>

\* The patch applied to the device.
ApplyStep ==
    /\ enc.pc = "encoded"
    /\ ~enc.res.err
    /\ enc' = [enc EXCEPT !.pc = "applied",
                          !.after = ConfigureDevice(enc.dev, enc.res.cfg)]
    /\ UNCHANGED <<items, fin, kernel, nextIndex, wg, wgClient, ctxDone, refresh, pc, list, links,
                   idx, errs, synced, calls, outcome, cycle, faults, afterClean, settled>>

\* ------------------------------------------------------------- inputs
ARPHRD_ETHER == 1
ARPHRD_NONE == 65534

Net0 == [addr |-> 10, bits |-> 24]

NoWireguard == [PrivateKey |-> 0, ListenPort |-> 0, FirewallMark |-> 0, Peers |-> <<>>]

SpecPeer(pub, psk, ep, ka, ips) ==
    [PublicKey |-> pub, PresharedKey |-> psk, Endpoint |-> ep,
     PersistentKeepaliveInterval |-> ka, AllowedIPs |-> ips]

DevPeer(pub, psk, ep, ka, ips) ==
    [PublicKey |-> pub, PresharedKey |-> psk, Endpoint |-> ep,
     PersistentKeepaliveInterval |-> ka, AllowedIPs |-> ips]

\* Sequences over S of length at most n.
SeqsUpTo(S, n) == UNION {[1..k -> S] : k \in 0..n}

StrictlyAscending(ps) == \A i \in 1..(Len(ps) - 1) : ps[i].PublicKey < ps[i + 1].PublicKey

\* A device the controller configured earlier.
UsedDev == [present |-> TRUE, PrivateKey |-> 1, ListenPort |-> 51820, FirewallMark |-> 0,
            Peers |-> {DevPeer(1, 2, Nil, 0, {})}]

\* The desired wireguard specs of the controller's runs.
CtlWireguard ==
    {[PrivateKey |-> k, ListenPort |-> p, FirewallMark |-> 0, Peers |-> ps] :
        k \in {KeyString(1), 1}, p \in {0, 51820},
        ps \in {<<>>,
                <<SpecPeer(KeyString(1), 0, 0, 0, {})>>,
                <<SpecPeer(KeyString(1), KeyString(2), 0, 0, {})>>,
                <<SpecPeer(KeyString(2), 0, AddrString(0), 25, {Net0}),
                  SpecPeer(KeyString(1), KeyString(2), 0, 0, {})>>}}

\* One declared link with every attribute free.
OneItems ==
    {[Name |-> "link0", Phase |-> "Running", Logical |-> l, Kind |-> kw[1], Type |-> t,
      Up |-> u, MTU |-> m, Wireguard |-> kw[2]] :
        l \in BOOLEAN, t \in {ARPHRD_ETHER, ARPHRD_NONE}, u \in BOOLEAN, m \in {0, 1500},
        kw \in ({<<"bond", NoWireguard>>} \cup ({LinkKindWireguard} \X CtlWireguard))}

\* The kernel's link of that name and its device.
OneKernels ==
    {<<NoLink, NoDev>>} \cup
    {<<[present |-> TRUE, Index |-> 1, Type |-> t, Info |-> kd[1] # "", Kind |-> kd[1],
        Up |-> um[1], NoArp |-> kd[1] = LinkKindWireguard, MTU |-> um[2]], kd[2]>> :
        t \in {ARPHRD_ETHER, ARPHRD_NONE},
        um \in {<<FALSE, 1500>>, <<TRUE, 1420>>},
        kd \in {<<"", NoDev>>, <<"bond", NoDev>>, <<LinkKindWireguard, FreshDev>>,
                <<LinkKindWireguard, UsedDev>>}}

\* Two declared links, kind and logical flag free.
TypeOfKind(kind) == IF kind = LinkKindWireguard THEN ARPHRD_NONE ELSE ARPHRD_ETHER

TwoItem(name) ==
    {[Name |-> name, Phase |-> "Running", Logical |-> l, Kind |-> k, Type |-> TypeOfKind(k),
      Up |-> TRUE, MTU |-> 0,
      Wireguard |-> IF k = LinkKindWireguard
                    THEN [PrivateKey |-> KeyString(1), ListenPort |-> 51820,
                          FirewallMark |-> 0, Peers |-> <<>>]
                    ELSE NoWireguard] :
        l \in BOOLEAN, k \in {"bond", LinkKindWireguard}}

TwoKernel(index) ==
    {<<NoLink, NoDev>>} \cup
    {<<[present |-> TRUE, Index |-> index, Type |-> TypeOfKind(kd[1]), Info |-> kd[1] # "",
        Kind |-> kd[1], Up |-> FALSE, NoArp |-> kd[1] = LinkKindWireguard, MTU |-> 1500],
       kd[2]>> :
        kd \in {<<"", NoDev>>, <<"bond", NoDev>>, <<LinkKindWireguard, FreshDev>>}}

\* Desired wireguard specs with a text Encode cannot parse: the private key,
\* a peer's public key, its preshared key, its endpoint.
BadWireguard ==
    {[PrivateKey |-> 1, ListenPort |-> 51820, FirewallMark |-> 0, Peers |-> <<>>]} \cup
    {[PrivateKey |-> KeyString(1), ListenPort |-> 51820, FirewallMark |-> 0,
      Peers |-> <<p>>] :
        p \in {SpecPeer(1, 0, 0, 0, {}),
               SpecPeer(KeyString(1), 1, 0, 0, {}),
               SpecPeer(KeyString(1), 0, 1, 0, {})}}

\* Logical wireguard links declared with such a spec.
BadItem(name) ==
    {[Name |-> name, Phase |-> "Running", Logical |-> TRUE, Kind |-> LinkKindWireguard,
      Type |-> ARPHRD_NONE, Up |-> TRUE, MTU |-> 0, Wireguard |-> w] : w \in BadWireguard}

EncOff == [pc |-> "off", dev |-> NoDev, spec |-> NoWireguard, res |-> EncodeFail,
           after |-> NoDev]

InitRun(its, k0, k1, client) ==
    /\ items = its
    /\ fin = {}
    /\ kernel = [n \in Names |-> IF n = "link0" THEN k0[1] ELSE k1[1]]
    /\ wg = [n \in Names |-> IF n = "link0" THEN k0[2] ELSE k1[2]]
    /\ nextIndex = 3
    /\ wgClient = client
    /\ ctxDone = FALSE
    /\ refresh = 0
    /\ pc = "wait"
    /\ list = <<>>
    /\ links = NoLinks
    /\ idx = 1
    /\ errs = <<>>
    /\ synced = <<>>
    /\ calls = <<>>
    /\ outcome = "none"
    /\ cycle = 0
    /\ faults = 0
    /\ afterClean = FALSE
    /\ settled = FALSE
    /\ enc = EncOff

Init ==
    \E client \in BOOLEAN :
       \/ \E it \in OneItems, k0 \in OneKernels :
             InitRun(<<it>>, k0, <<NoLink, NoDev>>, client)
       \/ \E i0 \in TwoItem("link0") \cup BadItem("link0"), i1 \in TwoItem("link1"),
             k0 \in TwoKernel(1), k1 \in TwoKernel(2) :
             InitRun(<<i0, i1>>, k0, k1, client)

\* The codec's inputs.  A device peer's contents and a desired peer's:
DevPeers ==
    {DevPeer(k, c[1], c[2], c[3], c[4]) :
        k \in {0, 1},
        c \in {<<0, Nil, 0, {}>>, <<2, Ptr(0), 0, {}>>, <<0, Nil, 25, {PrefixIPNet(Net0)}>>}}

SpecPeers ==
    {SpecPeer(k, c[1], c[2], c[3], c[4]) :
        k \in {1, KeyString(0), KeyString(0) + 1, KeyString(1)},
        c \in {<<0, 0, 0, {}>>,
               <<KeyString(2), 0, 0, {}>>, <<1, 0, 0, {}>>,
               <<0, AddrString(0), 0, {}>>, <<0, AddrString(0) + 1, 0, {}>>,
               <<0, 1, 0, {}>>,
               <<0, 0, 25, {Net0}>>}}

\* The device's peer sets: one peer for a key.
DevPeerSets ==
    {ps \in SUBSET DevPeers :
        /\ Cardinality(ps) <= MaxPeers
        /\ \A p, q \in ps : p.PublicKey = q.PublicKey => p = q}

DevTops == {<<0, 0, 0>>, <<1, 51820, 0>>}

SpecTops == {KeyString(1), KeyString(1) + 1, 1} \X {0, 51820} \X {0, 7}

AscendingPeerSeqs(n) == {ps \in SeqsUpTo(SpecPeers, n) : StrictlyAscending(ps)}

InitCodec(dt, dps, st, sps) ==
    /\ enc = [pc |-> "init",
              dev |-> [present |-> TRUE, PrivateKey |-> dt[1], ListenPort |-> dt[2],
                       FirewallMark |-> dt[3], Peers |-> dps],
              spec |-> [PrivateKey |-> st[1], ListenPort |-> st[2],
                        FirewallMark |-> st[3], Peers |-> sps],
              res |-> EncodeFail,
              after |-> NoDev]
    /\ items = <<>>
    /\ fin = {}
    /\ kernel = NoLinks
    /\ wg = [n \in Names |-> NoDev]
    /\ nextIndex = 1
    /\ wgClient = TRUE
    /\ ctxDone = FALSE
    /\ refresh = 0
    /\ pc = "off"
    /\ list = <<>>
    /\ links = NoLinks
    /\ idx = 1
    /\ errs = <<>>
    /\ synced = <<>>
    /\ calls = <<>>
    /\ outcome = "none"
    /\ cycle = 0
    /\ faults = 0
    /\ afterClean = FALSE
    /\ settled = FALSE

\* Peer lists of full length under equal top-level fields, and every
\* top-level field under shorter peer lists.
InitEncode ==
    \E dps \in DevPeerSets :
       \/ \E sps \in AscendingPeerSeqs(MaxPeers) :
             InitCodec(<<1, 51820, 0>>, dps, <<KeyString(1), 51820, 0>>, sps)
       \/ \E dt \in DevTops, st \in SpecTops, sps \in AscendingPeerSeqs(MaxPeers - 1) :
             InitCodec(dt, dps, st, sps)

NextEncode ==
    \/ EncodeStep
    \/ ApplyStep

SpecEncode == InitEncode /\ [][NextEncode]_vars

Next ==
    \/ Wake
    \/ AddFinalizers
    \/ ListLinks
    \/ SyncItem
    \/ EndCycle
    \/ Cancel
    \/ Restart
    \/ TearDown

Spec == Init /\ [][Next]_vars

\* Runs over two declared links, with a wireguard client and the second link
\* not yet in the kernel, in which the context may be cancelled during a cycle.
InitCancel == Init /\ Len(items) = 2 /\ wgClient /\ ~kernel["link1"].present

NextCancel ==
    \/ Next
    \/ CtxCancel

SpecCancel == InitCancel /\ [][NextCancel]_vars

\* ================================================================ claims
KernelOps == {"create", "delete", "set_flags", "set_mtu"}

MutationOps == KernelOps \cup {"configure"}

\* The calls the sync of the item of that name issued in this cycle.
CallsOf(name) == SelectSeq(calls, LAMBDA e : e.item = name)

OpsOf(name) == [i \in 1..Len(CallsOf(name)) |-> CallsOf(name)[i].op]

\* The listed item of that name.
ItemOf(name) == list[CHOOSE i \in 1..Len(list) : list[i].Name = name]

Syncs == {synced[i] : i \in 1..Len(synced)}

\* C1: a cycle that follows a healthy cycle, with the same declared items and
\* nothing else touching the kernel or the devices, issues no kernel
\* create/delete/modify call and no wireguard configure call.
C1_SecondCycleIssuesNothing ==
    afterClean => \A i \in 1..Len(calls) : calls[i].op \notin MutationOps

\* The desired peer as the device reports it once configured.
CanonPeer(p) ==
    [PublicKey |-> KeyString(ParseKey(p.PublicKey).key),
     PresharedKey |-> IF p.PresharedKey = 0 THEN 0
                      ELSE KeyString(ParseKey(p.PresharedKey).key),
     Endpoint |-> IF p.Endpoint = 0 THEN 0
                  ELSE AddrString(ResolveUDPAddr(p.Endpoint).addr),
     PersistentKeepaliveInterval |-> p.PersistentKeepaliveInterval,
     AllowedIPs |-> p.AllowedIPs]

\* The codec's `existing` argument.
EncExisting == SortSpec(Decode(enc.dev))

PeerKeys(ps) == {ps[i].PublicKey : i \in 1..Len(ps)}

\* Same-key peers of the two lists whose contents differ.
Mismatches(existing, desired) ==
    {<<i, j>> \in (1..Len(existing)) \X (1..Len(desired)) :
        /\ existing[i].PublicKey = desired[j].PublicKey
        /\ ~PeerEqual(existing[i], desired[j])}

\* The list's public keys parse, and to keys that ascend strictly.
AscendingKeys(ps) ==
    /\ \A i \in 1..Len(ps) : ~ParseKey(ps[i].PublicKey).err
    /\ \A i \in 1..(Len(ps) - 1) :
          ParseKey(ps[i].PublicKey).key < ParseKey(ps[i + 1].PublicKey).key

\* C2: for peer lists strictly ascending by public key, the entries Encode
\* produces, applied to the existing peers, give exactly the keys and the
\* per-peer contents of the desired list, and their number is the size of the
\* symmetric difference by key plus the number of same-key content mismatches.
C2_MergeDiffReproducesDesired ==
    (enc.pc = "applied" /\ AscendingKeys(enc.spec.Peers)) =>
       /\ {DecodePeer(p) : p \in enc.after.Peers}
             = {CanonPeer(enc.spec.Peers[i]) : i \in 1..Len(enc.spec.Peers)}
       /\ Len(enc.res.cfg.Peers)
             = Cardinality((PeerKeys(EncExisting.Peers) \ PeerKeys(enc.spec.Peers))
                           \cup (PeerKeys(enc.spec.Peers) \ PeerKeys(EncExisting.Peers)))
               + Cardinality(Mismatches(EncExisting.Peers, enc.spec.Peers))

\* C3: whenever the finalizer of a logical LinkSpec is removed, the kernel
\* holds no link of that LinkSpec's name at that moment.
C3_FinalizerReleasedAfterDelete ==
    \A i \in 1..Len(calls) :
       (calls[i].op = "rmfin" /\ calls[i].ok /\ ItemOf(calls[i].item).Logical)
          => ~calls[i].arg.held

\* The sync of the item of that name in this cycle.
SyncOf(name) == CHOOSE s \in Syncs : s.item.Name = name

\* A Running logical item whose snapshot link carries kind metadata and
\* differs from it in kind or type code.
Mismatched(s) ==
    /\ s.item.Phase = "Running"
    /\ s.item.Logical
    /\ s.found.present
    /\ s.found.Info
    /\ (s.found.Type # s.item.Type \/ s.found.Kind # s.item.Kind)

\* No flags or MTU modification addressed to the link of that index.
NoModifyOf(cs, index) ==
    \A i \in 1..Len(cs) : cs[i].op \in {"set_flags", "set_mtu"} => cs[i].index # index

\* The sync's first call deletes the snapshot link and, the delete done, its
\* second creates a link of the desired kind and type.
DeleteThenCreate(s) ==
    LET cs == CallsOf(s.item.Name)
    IN  /\ Len(cs) >= 1
        /\ cs[1].op = "delete"
        /\ cs[1].index = s.found.Index
        /\ cs[1].ok =>
              /\ Len(cs) >= 2
              /\ cs[2].op = "create"
              /\ cs[2].arg.Kind = s.item.Kind
              /\ cs[2].arg.Type = s.item.Type

C5_ErrorAggregation ==
    /\ Len(synced) <= Len(list)
    /\ \A i \in 1..Len(synced) : synced[i].item = list[i]
    /\ outcome \in {"healthy", "error"} => Len(synced) = Len(list)
    /\ outcome = "error" => \E s \in Syncs : s.err
    /\ outcome = "healthy" => \A s \in Syncs : ~s.err

\* The first item's sync failed, the second was synced all the same, and the
\* cycle returned the error.
C5_Witness ==
    /\ outcome = "error"
    /\ Len(synced) = 2
    /\ synced[1].err
    /\ ~synced[2].err

\* C6: the sync of a TearingDown item with no snapshot link of its name issues
\* no kernel delete, removes the finalizer and returns no error, the finalizer
\* removal succeeding.
C6_TeardownAbsentLink ==
    \A s \in Syncs :
       (s.item.Phase = "TearingDown" /\ ~s.found.present) =>
          LET cs == CallsOf(s.item.Name)
          IN  /\ Len(cs) = 1
              /\ cs[1].op = "rmfin"
              /\ cs[1].ok => (~s.err /\ s.item.Name \notin fin)
              /\ ~cs[1].ok => s.err

\* A logical item that held the finalizer, torn down with its link absent.
C6_Witness ==
    \E s \in Syncs :
       /\ s.item.Phase = "TearingDown"
       /\ s.item.Logical
       /\ ~s.found.present
       /\ ~s.err
       /\ cycle = 2
       /\ s.item.Name \notin fin

\* The MTU of the snapshot link the sync's MTU step compared.
SnapshotMTU(s) ==
    IF \E i \in 1..Len(calls) : calls[i].item = s.item.Name /\ calls[i].op = "create"
    THEN DefaultMTU(s.item.Kind)
    ELSE s.found.MTU

\* C7: no MTU modification is issued for an item whose desired MTU is 0; for
\* another desired MTU one is issued only when the snapshot MTU differs, and
\* it carries the desired MTU.
C7_MTUZeroUnmanaged ==
    \A i \in 1..Len(calls) :
       calls[i].op = "set_mtu" =>
          LET s == SyncOf(calls[i].item)
          IN  /\ s.item.MTU # 0
              /\ calls[i].arg.MTU = s.item.MTU
              /\ SnapshotMTU(s) # s.item.MTU

\* A sync with desired MTU 0 went through all its steps on a link whose MTU is
\* not 0, and issued no MTU modification.
C7_Witness ==
    \E s \in Syncs :
       /\ s.item.Phase = "Running"
       /\ s.item.MTU = 0
       /\ ~s.item.Logical
       /\ s.item.Kind = "bond"
       /\ s.found.present
       /\ s.found.MTU # 0
       /\ ~s.err
       /\ OpsOf(s.item.Name) = <<"set_flags">>

\* C8: a kernel link create is issued only in the sync of an item that is
\* Running, logical and of the wireguard kind.
C8_CreateOnlyWireguard ==
    \A i \in 1..Len(calls) :
       calls[i].op = "create" =>
          /\ ItemOf(calls[i].item).Phase = "Running"
          /\ ItemOf(calls[i].item).Logical
          /\ ItemOf(calls[i].item).Kind = LinkKindWireguard

\* A link was created, and logical bond and non-logical items with no link
\* were synced without one.
C8_Witness ==
    /\ \E i \in 1..Len(calls) : calls[i].op = "create" /\ calls[i].ok
    /\ \E s \in Syncs : /\ s.item.Phase = "Running"
                        /\ ~s.found.present
                        /\ (~s.item.Logical \/ s.item.Kind = "bond")

\* C9: the sync of a Running non-logical item with no snapshot link of its
\* name returns success and issues no call at all.
C9_PhysicalAbsent ==
    \A s \in Syncs :
       (s.item.Phase = "Running" /\ ~s.item.Logical /\ ~s.found.present) =>
          ~s.err /\ CallsOf(s.item.Name) = <<>>

\* Such an item of the wireguard kind, to be up, with a managed MTU.
C9_Witness ==
    \E s \in Syncs :
       /\ s.item.Phase = "Running"
       /\ ~s.item.Logical
       /\ ~s.found.present
       /\ s.item.Kind = LinkKindWireguard
       /\ s.item.Up
       /\ s.item.MTU # 0
       /\ ~s.err

\* C10: a patch Encode returns holds ListenPort, FirewallMark and PrivateKey
\* exactly when the desired value differs from the existing one, each with the
\* desired value: a differing desired ListenPort of 0 is in it as 0.
C10_TopLevelFields ==
    (enc.pc \in {"encoded", "applied"} /\ ~enc.res.err) =>
       LET cfg == enc.res.cfg
       IN  /\ cfg.ListenPort.set <=> enc.dev.ListenPort # enc.spec.ListenPort
           /\ cfg.ListenPort.set => cfg.ListenPort.val = enc.spec.ListenPort
           /\ cfg.FirewallMark.set <=> enc.dev.FirewallMark # enc.spec.FirewallMark
           /\ cfg.FirewallMark.set => cfg.FirewallMark.val = enc.spec.FirewallMark
           /\ cfg.PrivateKey.set <=> KeyString(enc.dev.PrivateKey) # enc.spec.PrivateKey
           /\ cfg.PrivateKey.set => cfg.PrivateKey.val = ParseKey(enc.spec.PrivateKey).key

\* Desired ListenPort 0 against an existing 51820: the patch holds 0.
C10_Witness ==
    /\ enc.pc = "encoded"
    /\ ~enc.res.err
    /\ enc.spec.ListenPort = 0
    /\ enc.dev.ListenPort = 51820
    /\ enc.res.cfg.ListenPort = Ptr(0)
    /\ enc.res.cfg.PrivateKey.set
    /\ ~enc.res.cfg.FirewallMark.set

\* The names and indexes of the links a link table holds.
LinkSet(table) == {<<n, table[n].Index>> : n \in {m \in Names : table[m].present}}

\* C11: at the moment the sync of an item begins, the snapshot's set of links
\* is the kernel's current set of links.
C11_SnapshotFresh ==
    (pc = "sync" /\ idx <= Len(list)) => LinkSet(links) = LinkSet(kernel)

\* C11 in the cycles where no call has failed.
C11_SnapshotFreshNoFailure ==
    (pc = "sync" /\ idx <= Len(list) /\ faults = 0) => LinkSet(links) = LinkSet(kernel)

\* C12: the reconciler never issues a create for a link name the kernel holds.
C12_NoDuplicateCreate ==
    \A i \in 1..Len(calls) : calls[i].op = "create" => ~calls[i].arg.held

\* C12 in the cycles where no call has failed.
C12_NoDuplicateCreateNoFailure ==
    faults = 0 => C12_NoDuplicateCreate

\* The kernel link and the wireguard device of a declared item are as the item
\* desires them; the device is compared as syncLink compares it.
Converged(item) ==
    LET k == kernel[item.Name]
    IN  /\ k.present
        /\ k.Kind = item.Kind
        /\ k.Type = item.Type
        /\ k.Up = item.Up
        /\ item.MTU # 0 => k.MTU = item.MTU
        /\ wg[item.Name].present
        /\ SpecEqual(SortSpec(Decode(wg[item.Name])), SortSpec(item.Wireguard))

\* The Running logical wireguard items of the store.
ManagedWireguard ==
    {items[i] : i \in {j \in 1..Len(items) : /\ items[j].Phase = "Running"
                                             /\ items[j].Logical
                                             /\ items[j].Kind = LinkKindWireguard}}

\* Two healthy cycles in a row have ended, no call having failed, with a
\* wireguard client, and every kernel link reports its kind.
TwiceHealthy ==
    /\ pc = "wait"
    /\ outcome = "healthy"
    /\ afterClean
    /\ settled
    /\ faults = 0
    /\ wgClient
    /\ \A n \in Names : kernel[n].present => kernel[n].Info

\* C13: with wakes arriving, nothing failing, a wireguard client, kind
\* metadata reported and nobody else changing the kernel or the devices, every
\* Running logical wireguard item comes to have its kernel link and its device
\* as desired: it has them so once two healthy cycles in a row have ended.
C13_Converges ==
    TwiceHealthy => \A item \in ManagedWireguard : Converged(item)

\* A device peer holds a preshared key or an endpoint the desired peer of that
\* key does not have.
KeepsSecret(item) ==
    \E p \in wg[item.Name].Peers, i \in 1..Len(item.Wireguard.Peers) :
       /\ item.Wireguard.Peers[i].PublicKey = KeyString(p.PublicKey)
       /\ \/ p.PresharedKey # 0 /\ item.Wireguard.Peers[i].PresharedKey = 0
          \/ p.Endpoint.set /\ item.Wireguard.Peers[i].Endpoint = 0

\* C13 for the items that need no preshared key or endpoint taken away.
C13_ConvergesUnlessClearing ==
    TwiceHealthy => \A item \in ManagedWireguard : KeepsSecret(item) \/ Converged(item)

\* The desired spec holds a text that does not parse: the private key, a
\* peer's public key, a preshared key or an endpoint.
Unparsable(spec) ==
    \/ ParseKey(spec.PrivateKey).err
    \/ \E i \in 1..Len(spec.Peers) :
          \/ ParseKey(spec.Peers[i].PublicKey).err
          \/ spec.Peers[i].PresharedKey # 0 /\ ParseKey(spec.Peers[i].PresharedKey).err
          \/ spec.Peers[i].Endpoint # 0 /\ ResolveUDPAddr(spec.Peers[i].Endpoint).err

\* C14: for a desired spec with an unparsable private key, peer public key,
\* preshared key or endpoint, Encode returns an error and no patch; the sync
\* that called it returns an error, issues no wireguard configure and no
\* refresh bump, and the item loop goes on to the items after it.
C14_EncodeAllOrNothing ==
    \A s \in Syncs :
       Unparsable(s.item.Wireguard) =>
          LET cs == CallsOf(s.item.Name)
          IN  /\ \A i \in 1..Len(cs) : cs[i].op \notin {"configure", "bump"}
              /\ \A i \in 1..Len(cs) :
                    cs[i].op = "encode" => /\ cs[i].arg = EncodeFail
                                           /\ i = Len(cs)
                                           /\ s.err
              /\ (pc = "sync" /\ idx > Len(list)) => Len(synced) = Len(list)

\* A peer's endpoint failed to parse in the first item's sync, which returned
\* the error, and the second item was synced after it.
C14_Witness ==
    /\ Len(synced) = 2
    /\ synced[1].err
    /\ \E i \in 1..Len(calls) : /\ calls[i].op = "encode"
                                /\ calls[i].item = synced[1].item.Name
                                /\ calls[i].arg.err
    /\ ~ParseKey(synced[1].item.Wireguard.PrivateKey).err
    /\ synced[1].item.Wireguard.Peers # <<>>
    /\ synced[1].item.Wireguard.Peers[1].Endpoint = 1
    /\ \E i \in 1..Len(calls) : calls[i].item = synced[2].item.Name

\* The sync of a Running item returns nil before its wireguard step: the link
\* is physical and not in the snapshot, or logical and without kind metadata.
ReturnsEarly(s) ==
    \/ ~s.item.Logical /\ ~s.found.present
    \/ s.item.Logical /\ s.found.present /\ ~s.found.Info

\* The syncs of Running wireguard-kind items.
WireguardSyncs == {s \in Syncs : s.item.Phase = "Running" /\ s.item.Kind = LinkKindWireguard}

\* No flags or MTU modification issued in the sync of the item of that name.
NoSetCalls(name) ==
    \A i \in 1..Len(calls) :
       calls[i].item = name => calls[i].op \notin {"set_flags", "set_mtu"}

\* C15 as stated: with no wireguard client, the sync of every Running
\* wireguard-kind item returns an error, a cycle with such an item is never
\* healthy, and no flags or MTU modification is issued for the item.
C15_NoClientAlwaysFatal ==
    ~wgClient =>
       /\ \A s \in WireguardSyncs : s.err /\ NoSetCalls(s.item.Name)
       /\ outcome = "healthy" => WireguardSyncs = {}

\* C15 amended: with no wireguard client, the sync of a Running wireguard-kind
\* item returns an error unless it returns early (physical link absent from the
\* snapshot, or logical link without kind metadata); a cycle is healthy only if
\* all its wireguard-kind syncs returned early; and no flags or MTU
\* modification is issued for the item in either case.
C15_NoClientFatalAtWireguardStep ==
    ~wgClient =>
       /\ \A s \in WireguardSyncs : /\ s.err \/ ReturnsEarly(s)
                                    /\ ReturnsEarly(s) => ~s.err
                                    /\ NoSetCalls(s.item.Name)
       /\ outcome = "healthy" => \A s \in WireguardSyncs : ReturnsEarly(s)

\* No client; a wireguard link as desired but down, to be up, with a managed
\* MTU that differs: its sync returned an error, issued no call, and the cycle
\* ended in error.
C15_Witness ==
    /\ ~wgClient
    /\ outcome = "error"
    /\ calls = <<>>
    /\ \E s \in WireguardSyncs :
          /\ s.err
          /\ s.found.present
          /\ s.found.Info
          /\ s.found.Kind = s.item.Kind
          /\ s.found.Type = s.item.Type
          /\ s.found.Up # s.item.Up
          /\ s.item.MTU # 0
          /\ s.found.MTU # s.item.MTU

\* The refresh bumps and the successful configure calls of an item's sync.
BumpsOf(name) == {i \in 1..Len(calls) : calls[i].item = name /\ calls[i].op = "bump"}

ConfiguredOf(name) ==
    {i \in 1..Len(calls) : calls[i].item = name /\ calls[i].op = "configure" /\ calls[i].ok}

\* The sync read the device and found it equal to the desired spec.
FoundEqual(name) ==
    \E i \in 1..Len(calls) :
       calls[i].item = name /\ calls[i].op = "device" /\ calls[i].arg.equal

\* C16: the sync of a Running wireguard-kind item bumps the LinkRefresh of the
\* wireguard kind exactly once if and only if it issued a wireguard configure
\* that succeeded; when the sorted decoded device equals the sorted desired
\* spec it issues neither a configure nor a bump.
C16_BumpIffConfigured ==
    \A s \in WireguardSyncs :
       /\ Cardinality(BumpsOf(s.item.Name)) <= 1
       /\ Cardinality(BumpsOf(s.item.Name)) = 1 <=> ConfiguredOf(s.item.Name) # {}
       /\ FoundEqual(s.item.Name) =>
             \A i \in 1..Len(calls) :
                calls[i].item = s.item.Name => calls[i].op \notin {"configure", "bump"}

\* C16 for the syncs that returned no error.
C16_BumpIffConfiguredNoError ==
    \A s \in WireguardSyncs :
       /\ Cardinality(BumpsOf(s.item.Name)) <= 1
       /\ Cardinality(BumpsOf(s.item.Name)) = 1 => ConfiguredOf(s.item.Name) # {}
       /\ (~s.err /\ ConfiguredOf(s.item.Name) # {}) => Cardinality(BumpsOf(s.item.Name)) = 1
       /\ FoundEqual(s.item.Name) =>
             \A i \in 1..Len(calls) :
                calls[i].item = s.item.Name => calls[i].op \notin {"configure", "bump"}

\* The Running items of the cycle's list all hold the finalizer.
RunningHoldFinalizer ==
    \A i \in 1..Len(list) : list[i].Phase = "Running" => list[i].Name \in fin

\* C17: the finalizer is attached to every Running item of the list before
\* the kernel is listed and before any item is synced, so every kernel create,
\* delete or modify issued for a Running item finds the item holding it; a
\* cycle that fails to attach a finalizer is aborted with no kernel mutation.
C17_FinalizerPrecedesMutation ==
    /\ pc \in {"listlinks", "sync"} => RunningHoldFinalizer
    /\ \A i \in 1..Len(calls) :
          (calls[i].op \in KernelOps /\ ItemOf(calls[i].item).Phase = "Running")
             => calls[i].item \in fin
    /\ ~RunningHoldFinalizer => \A i \in 1..Len(calls) : calls[i].op \notin MutationOps
    /\ outcome = "aborted" => (calls = <<>> /\ synced = <<>>)

\* A link was created for a Running item that had no finalizer when the run
\* began, and holds it now.
C17_Witness ==
    \E i \in 1..Len(calls) :
       /\ calls[i].op = "create"
       /\ calls[i].ok
       /\ ItemOf(calls[i].item).Phase = "Running"
       /\ calls[i].item \in fin
       /\ cycle = 1

\* The sync of that name created its link.
CreatedIn(name) ==
    \E i \in 1..Len(calls) : calls[i].item = name /\ calls[i].op = "create" /\ calls[i].ok

\* The link the sync resolved, as the snapshot showed it at the up/down step:
\* the link found, or the link just created as the refreshed list showed it.
ResolvedLink(s) ==
    IF CreatedIn(s.item.Name)
    THEN [s.found EXCEPT !.Up = FALSE,
                         !.NoArp = s.item.Kind = LinkKindWireguard,
                         !.MTU = DefaultMTU(s.item.Kind)]
    ELSE s.found

\* The flags modifications issued in the sync of that name.
FlagsCallsOf(name) == SelectSeq(calls, LAMBDA e : e.item = name /\ e.op = "set_flags")

\* The sync of a Running item came to its up/down step: it returned no error
\* and not before resolving its link, or it went on to an MTU modification.
ReachedUpStep(s) ==
    \/ ~s.err /\ ~s.done
    \/ \E i \in 1..Len(calls) : calls[i].item = s.item.Name /\ calls[i].op = "set_mtu"

\* C18: a sync at its up/down step issues a flags modification exactly when
\* the snapshot's up bit of the link differs from the desired up state; the
\* modification's change mask holds the up bit alone and its flags hold the
\* up bit as desired, so that it leaves every other flag and the MTU alone.
C18_UpDownSync ==
    \A s \in Syncs :
       LET fs == FlagsCallsOf(s.item.Name)
           l  == ResolvedLink(s)
           k  == kernel[s.item.Name]
       IN  /\ Len(fs) <= 1
           /\ s.item.Phase # "Running" => fs = <<>>
           /\ fs # <<>> =>
                 /\ l.Up # s.item.Up
                 /\ fs[1].arg.Change = {"IFF_UP"}
                 /\ fs[1].arg.Flags = (IF s.item.Up THEN {"IFF_UP"} ELSE {})
           /\ (s.item.Phase = "Running" /\ ReachedUpStep(s) /\ l.Up # s.item.Up) => fs # <<>>
           /\ (fs # <<>> /\ fs[1].ok) =>
                 /\ k.Up = s.item.Up
                 /\ k.NoArp = l.NoArp
                 /\ k.MTU \in {l.MTU, s.item.MTU}
                 /\ k.MTU # l.MTU =>
                       \E i \in 1..Len(calls) : /\ calls[i].item = s.item.Name
                                                /\ calls[i].op = "set_mtu"
                                                /\ calls[i].ok

\* A wireguard link that was down and is to be up was brought up by its sync,
\* its no-ARP flag and its MTU as they were.
C18_Witness ==
    \E s \in Syncs :
       /\ s.item.Phase = "Running"
       /\ s.found.present
       /\ s.found.NoArp
       /\ ~s.found.Up
       /\ s.item.Up
       /\ s.item.MTU = 0
       /\ ~s.err
       /\ Len(FlagsCallsOf(s.item.Name)) = 1
       /\ kernel[s.item.Name].Up
       /\ kernel[s.item.Name].NoArp
       /\ kernel[s.item.Name].MTU = s.found.MTU

\* C19: the sync of a Running logical item whose snapshot link carries no
\* kind metadata returns success and issues no kernel create, delete or
\* modify and no wireguard call, whatever the item's kind, up state and MTU.
C19_NoInfoTolerated ==
    \A s \in Syncs :
       (s.item.Phase = "Running" /\ s.item.Logical /\ s.found.present /\ ~s.found.Info) =>
          /\ ~s.err
          /\ CallsOf(s.item.Name) = <<>>
          /\ kernel[s.item.Name] = s.found

\* Such an item of the wireguard kind with a managed MTU, over a link of
\* another up state, another MTU and a type other than desired.
C19_Witness ==
    \E s \in Syncs :
       /\ s.item.Phase = "Running"
       /\ s.item.Logical
       /\ s.item.Kind = LinkKindWireguard
       /\ s.found.present
       /\ ~s.found.Info
       /\ s.found.Type # s.item.Type
       /\ s.found.Up # s.item.Up
       /\ s.item.MTU # 0
       /\ s.found.MTU # s.item.MTU
       /\ ~s.err

\* Run is in a cycle.
InCycle == pc \in {"finalizers", "listlinks", "sync"}

\* A run that has stopped did not stop inside a cycle, and a cycle that got
\* to its item loop ended after the last listed item, cancelled or not.
StoppedAfterCycle ==
    /\ pc = "stopped" => outcome # "running"
    /\ (~InCycle /\ outcome \in {"healthy", "error"}) => Len(synced) = Len(list)

\* Run stops only from its wait, by returning nil, with nothing mutated in
\* that step, and takes no step once stopped.
StopsAtWait ==
    /\ pc # "stopped"
    /\ pc' = "stopped" =>
          /\ pc = "wait"
          /\ ctxDone'
          /\ UNCHANGED <<items, fin, kernel, nextIndex, wg, refresh, calls, synced, outcome>>
    /\ (InCycle /\ ctxDone' /\ ~ctxDone) => pc' = pc

\* C20: cancellation is observed only at the wait at the top of the loop: a
\* cycle under way goes on through all the listed items when the context is
\* cancelled during it, and Run, seeing the cancellation at the wait, returns
\* nil and issues no kernel, device or store mutation from then on.
C20_Cancellation ==
    /\ []StoppedAfterCycle
    /\ [][StopsAtWait]_vars

\* The context was cancelled during the first cycle before its second item,
\* which was then synced by creating its link, and the cycle ended healthy.
C20_Witness ==
    /\ ctxDone
    /\ cycle = 1
    /\ pc = "wait"
    /\ outcome = "healthy"
    /\ Len(synced) = 2
    /\ synced[2].cancelled
    /\ ~synced[2].err
    /\ \E i \in 1..Len(calls) :
          calls[i].op = "create" /\ calls[i].item = synced[2].item.Name /\ calls[i].ok

====
